---- MODULE Spec2Model ----
(***************************************************************************)
(* Model of adibirzu/oci-scheduled-report-automation.                      *)
(*                                                                         *)
(* Two entry points are modelled from the source:                          *)
(*   - the polling script  src/local-execution/send_latest_report.py       *)
(*     (class ReportSender, main), one step per external call;             *)
(*   - the event handler   src/func.py (handler), one step per external    *)
(*     call;                                                               *)
(* and the two object locators (get_latest_report_file in the script,      *)
(* get_latest_report_filename in func.py) as operators.                    *)
(*                                                                         *)
(* The variable `entry` says which program a behaviour runs: "polling",    *)
(* "event" or "locator" (the locators applied to a bounded listing).       *)
(***************************************************************************)
EXTENDS Integers, Sequences, FiniteSets, TLC

(***************************************************************************)
(* Bounds of the model.                                                    *)
(***************************************************************************)
\* creation timestamps are 1..MaxTime
MaxTime == 2
\* polling invocations (ReportSender() + run()) in one behaviour
MaxRuns == 3
\* objects uploaded to the bucket (it starts empty)
MaxUploads == 2

(***************************************************************************)
(* Object names.  A name is the sequence of its pieces, so that            *)
(* str.endswith is computed on the name and not assumed.                   *)
(***************************************************************************)
Prefix == "WeeklyCostsScheduledReport_"
ReportA == <<Prefix, "A", ".csv", ".gz">>
ReportB == <<Prefix, "B", ".csv", ".gz">>
PlainCsv == <<Prefix, "C", ".csv">>
Names == {ReportA, ReportB, PlainCsv}
Times == 1..MaxTime

\* the suffix both locators filter on: ".csv.gz"
CsvGz == <<".csv", ".gz">>

\* Python: name.endswith(suffix)
EndsWith(name, suffix) ==
    /\ Len(name) >= Len(suffix)
    /\ SubSeq(name, Len(name) - Len(suffix) + 1, Len(name)) = suffix

\* a listed object summary (fields="timeCreated,name[,size]")
Obj(n, t) == [name |-> n, time_created |-> t]
\* Python None for an object / a name
NoObj == [name |-> <<>>, time_created |-> 0]
NoName == <<>>

(***************************************************************************)
(* The object locators.                                                    *)
(***************************************************************************)
\* [obj for obj in objects if obj.name.endswith(".csv.gz")]
RECURSIVE FilterCsvGz(_)
FilterCsvGz(objs) ==
    IF objs = <<>> THEN <<>>
    ELSE IF EndsWith(Head(objs).name, CsvGz)
         THEN <<Head(objs)>> \o FilterCsvGz(Tail(objs))
         ELSE FilterCsvGz(Tail(objs))

\* insertion of x into a sequence sorted newest first, after the elements
\* that compare >= (list.sort is stable, also with reverse=True)
RECURSIVE InsertNewestFirst(_, _)
InsertNewestFirst(x, sorted) ==
    IF sorted = <<>> THEN <<x>>
    ELSE IF Head(sorted).time_created >= x.time_created
         THEN <<Head(sorted)>> \o InsertNewestFirst(x, Tail(sorted))
         ELSE <<x>> \o sorted

\* report_files.sort(key=lambda obj: obj.time_created, reverse=True)
RECURSIVE SortNewestFirst(_)
SortNewestFirst(objs) ==
    IF objs = <<>> THEN <<>>
    ELSE InsertNewestFirst(objs[Len(objs)], SortNewestFirst(SubSeq(objs, 1, Len(objs) - 1)))

\* a plausible bug: the suffix filter is dropped
LatestOfAll(objects) ==
    IF objects = <<>> THEN NoObj ELSE SortNewestFirst(objects)[1]

\* ReportSender.get_latest_report_file on a successful listing
LatestReportFile(objects) ==
    IF objects = <<>> THEN NoObj
    ELSE LET report_files == FilterCsvGz(objects)
         IN  IF report_files = <<>> THEN NoObj
             ELSE SortNewestFirst(report_files)[1]

\* func.py get_latest_report_filename on a successful listing: the name only
LatestReportFilename(objects) ==
    IF objects # <<>>
    THEN LET report_files == FilterCsvGz(objects)
         IN  IF report_files = <<>> THEN NoName
             ELSE SortNewestFirst(report_files)[1].name
    ELSE NoName

(***************************************************************************)
(* The sent ledger of the polling script.                                  *)
(***************************************************************************)
\* file_key = f"{file_name}_{file_time_created}"
FileKey(file_name, file_time_created) ==
    file_name \o <<"_", ToString(file_time_created)>>

\* hashlib.md5(file_key.encode()).hexdigest(): the digest is modelled as
\* injective on the keys (collisions are outside the model)
Md5(key) == <<"md5">> \o key

Fingerprint(file_name, file_time_created) == Md5(FileKey(file_name, file_time_created))

\* the empty dict
EmptyLedger == [k \in {} |-> 0]

\* d[k] = v
Put(d, k, v) == [x \in (DOMAIN d) \cup {k} |-> IF x = k THEN v ELSE d[x]]

\* is_file_already_sent
IsFileAlreadySent(sent_files, file_name, file_time_created) ==
    Fingerprint(file_name, file_time_created) \in DOMAIN sent_files

\* mark_file_as_sent, the in-memory insert (the save follows in the action)
Marked(sent_files, file_name, file_time_created, now) ==
    Put(sent_files, Fingerprint(file_name, file_time_created),
        [file_name |-> file_name,
         time_created |-> ToString(file_time_created),
         sent_at |-> now])

(***************************************************************************)
(* State.                                                                  *)
(***************************************************************************)
VARIABLES
    entry,          \* which program runs: "polling", "event", "locator"
    \* ---- the world of the polling script
    bucket,         \* the bucket: object name -> creation timestamp
    uploads,        \* objects uploaded so far (bounded by MaxUploads)
    configFile,     \* ../config.env: whether it exists, and its non-empty keys
    ledgerFile,     \* sent_files.json: [kind, data]
    ledgerDamaged,  \* history: a write of the ledger file failed half-way
    sender,         \* the ReportSender of each process, with its position
    runs,           \* invocations started so far
    prev,           \* summary of the last finished invocation
    dispatched,     \* history: fingerprint -> number of SMTP dispatches
    \* ---- the world of the event handler
    ctx,            \* handler's ctx: TRUE for an invocation context, FALSE for None
    data,           \* handler's data: the payload
    environ,        \* os.environ, as far as the handler reads it
    handler,        \* the handler's locals, with its position
    \* ---- the locators applied to one listing
    locator

pollVars == <<bucket, uploads, configFile, ledgerFile, ledgerDamaged, sender,
              runs, prev, dispatched>>

eventVars == <<ctx, data, environ, handler>>

locatorVars == <<locator>>

vars == <<entry, pollVars, eventVars, locatorVars>>

(***************************************************************************)
(* The polling script: src/local-execution/send_latest_report.py           *)
(***************************************************************************)
Procs == {1, 2}
\* the processes that run when the caller serializes the invocations
Serial == {1}

\* load_config: the keys that must be present and non-empty
required_keys ==
    {"NAMESPACE", "REPORT_BUCKET_NAME", "EMAIL_SENDER", "EMAIL_RECIPIENT",
     "SMTP_USERNAME_SECRET_OCID", "SMTP_PASSWORD_SECRET_OCID",
     "SMTP_SERVER", "SMTP_PORT"}

\* the config files a behaviour may start with: absent, complete, or with
\* some of these keys missing or empty
ConfigGaps == {{}, {"NAMESPACE"}, {"EMAIL_SENDER", "SMTP_PORT"}}
ConfigFiles ==
    {[exists |-> FALSE, keys |-> {}]}
        \cup {[exists |-> TRUE, keys |-> required_keys \ g] : g \in ConfigGaps}

\* a ReportSender that has not been constructed
Fresh ==
    [pc |-> "idle",
     config |-> {},
     sent_files |-> EmptyLedger,
     ledger_read |-> "",
     latest_file |-> NoObj,
     seen |-> EmptyLedger,
     io |-> <<>>,
     pending |-> "",
     sent |-> FALSE,
     exit_code |-> -1,
     error |-> "",
     failed_step |-> "",
     missing_keys |-> {}]

Log(s, ev) == [s EXCEPT !.io = Append(@, ev)]

\* a plausible bug: run's except clause logs and returns
RunExceptSwallowed(s, step, kind) ==
    [s EXCEPT !.pc = "exited", !.exit_code = 0, !.error = kind, !.failed_step = step]

\* run: except Exception -> logger.error, sys.exit(1).  SystemExit is not an
\* Exception, so main's except clause lets it through.
RunExcept(s, step, kind) ==
    [s EXCEPT !.pc = "exited", !.exit_code = 1, !.error = kind, !.failed_step = step]

\* main: except Exception -> logger.error, sys.exit(1)
MainExcept(s, step, kind) ==
    [s EXCEPT !.pc = "exited", !.exit_code = 1, !.error = kind, !.failed_step = step]

\* run returns, main returns: the process ends with status 0
RunReturns(s) == [s EXCEPT !.pc = "exited", !.exit_code = 0]

\* all orders in which list_objects may return the objects of the bucket
Listings(b) ==
    LET objs == {Obj(n, b[n]) : n \in DOMAIN b}
    IN  {l \in [1..Cardinality(objs) -> objs] : \A i, j \in DOMAIN l : i # j => l[i] # l[j]}

\* An object is created in (or overwritten in) the bucket; its creation
\* timestamp is not older than that of any object already there.
UploadObject(n, t) ==
    /\ entry = "polling"
    /\ uploads < MaxUploads
    /\ \A m \in DOMAIN bucket : bucket[m] <= t
    /\ IF n \in DOMAIN bucket THEN bucket[n] < t ELSE TRUE
    /\ bucket' = Put(bucket, n, t)
    /\ uploads' = uploads + 1
    /\ UNCHANGED <<entry, eventVars, locatorVars, configFile, ledgerFile, ledgerDamaged, sender, runs, prev,
                   dispatched>>

\* what is kept of a finished invocation when the next one starts
Summary(s) ==
    [ran |-> TRUE, exit_code |-> s.exit_code, sent |-> s.sent,
     latest_file |-> s.latest_file, seen |-> s.seen]

NoRun ==
    [ran |-> FALSE, exit_code |-> -1, sent |-> FALSE,
     latest_file |-> NoObj, seen |-> EmptyLedger]

\* main: sender = ReportSender()
StartInvocation(p) ==
    /\ entry = "polling"
    /\ sender[p].pc \in {"idle", "exited"}
    /\ runs < MaxRuns
    /\ runs' = runs + 1
    /\ prev' = IF sender[p].pc = "exited" THEN Summary(sender[p]) ELSE prev
    /\ sender' = [sender EXCEPT ![p] = [Fresh EXCEPT !.pc = "load_config"]]
    /\ UNCHANGED <<entry, eventVars, locatorVars, bucket, uploads, configFile, ledgerFile, ledgerDamaged,
                   dispatched>>

\* __init__: self.config = self.load_config(config_file)
LoadConfig(p) ==
    /\ sender[p].pc = "load_config"
    /\ LET s == Log(sender[p], "read_config")
           missing_keys == required_keys \ configFile.keys
       IN  sender' = [sender EXCEPT ![p] =
             IF ~configFile.exists
             THEN MainExcept(s, "load_config", "FileNotFoundError")
             ELSE IF missing_keys # {}
             THEN MainExcept([s EXCEPT !.missing_keys = missing_keys],
                             "load_config", "ValueError")
             ELSE [s EXCEPT !.config = configFile.keys, !.pc = "load_sent_files"]]
    /\ UNCHANGED <<entry, eventVars, locatorVars, bucket, uploads, configFile, ledgerFile, ledgerDamaged,
                   runs, prev, dispatched>>

\* the outcomes of reading an existing sent_files.json: open() and json.load
\* succeed, or one of them raises (the file cannot be opened or read, or what
\* is read is not JSON)
LoadOutcomes == {"loaded", "load_failed"}

\* load_sent_files: a missing file, and a file whose reading raised, is an
\* empty ledger (the exception is logged as a warning)
LoadedSentFiles(f, outcome) ==
    IF f.kind = "valid" /\ outcome = "loaded" THEN f.data ELSE EmptyLedger

\* load_sent_files, what it did: the file was not there, it was loaded, or
\* reading it raised and the warning was logged
LedgerRead(f, outcome) ==
    IF f.kind = "missing" THEN "missing"
    ELSE IF f.kind = "valid" /\ outcome = "loaded" THEN "loaded"
    ELSE "failed"

\* __init__: self.sent_files = self.load_sent_files()
LoadSentFiles(p) ==
    /\ sender[p].pc = "load_sent_files"
    /\ \E outcome \in LoadOutcomes :
         sender' = [sender EXCEPT ![p] =
           [Log(@, "read_ledger") EXCEPT
               !.sent_files = LoadedSentFiles(ledgerFile, outcome),
               !.ledger_read = LedgerRead(ledgerFile, outcome),
               !.pc = "setup_oci_config"]]
    /\ UNCHANGED <<entry, eventVars, locatorVars, bucket, uploads, configFile, ledgerFile, ledgerDamaged,
                   runs, prev, dispatched>>

\* __init__: self.oci_config = self.setup_oci_config()
SetupOciConfig(p) ==
    /\ sender[p].pc = "setup_oci_config"
    /\ \E ok \in BOOLEAN :
         LET s == Log(sender[p], "oci_config")
         IN  sender' = [sender EXCEPT ![p] =
               IF ok THEN [s EXCEPT !.pc = "setup_signer"]
               ELSE MainExcept(s, "setup_oci_config", "ConfigFileNotFound")]
    /\ UNCHANGED <<entry, eventVars, locatorVars, bucket, uploads, configFile, ledgerFile, ledgerDamaged,
                   runs, prev, dispatched>>

\* __init__: self.signer = self.setup_signer(), then the two clients
SetupSigner(p) ==
    /\ sender[p].pc = "setup_signer"
    /\ \E ok \in BOOLEAN :
         LET s == Log(sender[p], "signer")
         IN  sender' = [sender EXCEPT ![p] =
               IF ok THEN [s EXCEPT !.pc = "get_latest_report_file"]
               ELSE MainExcept(s, "setup_signer", "InvalidPrivateKey")]
    /\ UNCHANGED <<entry, eventVars, locatorVars, bucket, uploads, configFile, ledgerFile, ledgerDamaged,
                   runs, prev, dispatched>>

\* run: latest_file = self.get_latest_report_file(); if not latest_file: return
GetLatestReportFile(p) ==
    /\ sender[p].pc = "get_latest_report_file"
    /\ LET s == Log(sender[p], "list_objects")
       IN  \/ sender' = [sender EXCEPT ![p] =
                           RunExcept(s, "get_latest_report_file", "ServiceError")]
           \/ \E objects \in Listings(bucket) :
                LET latest_file == LatestReportFile(objects)
                    t == [s EXCEPT !.seen = bucket, !.latest_file = latest_file]
                IN  sender' = [sender EXCEPT ![p] =
                      IF latest_file = NoObj THEN RunReturns(t)
                      ELSE [t EXCEPT !.pc = "is_file_already_sent"]]
    /\ UNCHANGED <<entry, eventVars, locatorVars, bucket, uploads, configFile, ledgerFile, ledgerDamaged,
                   runs, prev, dispatched>>

\* run: if self.is_file_already_sent(...): return
CheckAlreadySent(p) ==
    /\ sender[p].pc = "is_file_already_sent"
    /\ LET s == sender[p]
       IN  sender' = [sender EXCEPT ![p] =
             IF IsFileAlreadySent(s.sent_files, s.latest_file.name,
                                  s.latest_file.time_created)
             THEN RunReturns(s)
             ELSE [s EXCEPT !.pc = "download_file"]]
    /\ UNCHANGED <<entry, eventVars, locatorVars, bucket, uploads, configFile, ledgerFile, ledgerDamaged,
                   runs, prev, dispatched>>

\* run: file_data = self.download_file(latest_file.name)
DownloadFile(p) ==
    /\ sender[p].pc = "download_file"
    /\ \E ok \in BOOLEAN :
         LET s == Log(sender[p], "get_object")
         IN  sender' = [sender EXCEPT ![p] =
               IF ok THEN [s EXCEPT !.pc = "get_secret_username"]
               ELSE RunExcept(s, "download_file", "ServiceError")]
    /\ UNCHANGED <<entry, eventVars, locatorVars, bucket, uploads, configFile, ledgerFile, ledgerDamaged,
                   runs, prev, dispatched>>

\* send_email: smtp_username = self.get_secret(...)
GetSecretUsername(p) ==
    /\ sender[p].pc = "get_secret_username"
    /\ \E ok \in BOOLEAN :
         LET s == Log(sender[p], "get_secret")
         IN  sender' = [sender EXCEPT ![p] =
               IF ok THEN [s EXCEPT !.pc = "get_secret_password"]
               ELSE RunExcept(s, "get_secret", "ServiceError")]
    /\ UNCHANGED <<entry, eventVars, locatorVars, bucket, uploads, configFile, ledgerFile, ledgerDamaged,
                   runs, prev, dispatched>>

\* send_email: smtp_password = self.get_secret(...), then the message is built
GetSecretPassword(p) ==
    /\ sender[p].pc = "get_secret_password"
    /\ \E ok \in BOOLEAN :
         LET s == Log(sender[p], "get_secret")
         IN  sender' = [sender EXCEPT ![p] =
               IF ok THEN [s EXCEPT !.pc = "smtp_connect"]
               ELSE RunExcept(s, "get_secret", "ServiceError")]
    /\ UNCHANGED <<entry, eventVars, locatorVars, bucket, uploads, configFile, ledgerFile, ledgerDamaged,
                   runs, prev, dispatched>>

\* send_email: with smtplib.SMTP(server, int(port)) as server
\* A failure of the constructor leaves no context manager to exit.
SmtpConnect(p) ==
    /\ sender[p].pc = "smtp_connect"
    /\ \E ok \in BOOLEAN :
         LET s == Log(sender[p], "smtp_connect")
         IN  sender' = [sender EXCEPT ![p] =
               IF ok THEN [s EXCEPT !.pc = "starttls"]
               ELSE RunExcept(s, "smtp_connect", "SMTPConnectError")]
    /\ UNCHANGED <<entry, eventVars, locatorVars, bucket, uploads, configFile, ledgerFile, ledgerDamaged,
                   runs, prev, dispatched>>

\* a plausible bug: the connection is not a context manager, an exception in
\* the block goes straight to run's except clause
RaiseInWithNoExit(s, step, kind) == RunExcept(s, step, kind)

\* an exception inside the with block: SMTP.__exit__ runs before it propagates
RaiseInWith(s, step, kind) ==
    [s EXCEPT !.pc = "smtp_exit", !.pending = kind, !.failed_step = step]

\* send_email: server.starttls()
SmtpStarttls(p) ==
    /\ sender[p].pc = "starttls"
    /\ \E ok \in BOOLEAN :
         LET s == Log(sender[p], "starttls")
         IN  sender' = [sender EXCEPT ![p] =
               IF ok THEN [s EXCEPT !.pc = "login"]
               ELSE RaiseInWith(s, "starttls", "SMTPNotSupportedError")]
    /\ UNCHANGED <<entry, eventVars, locatorVars, bucket, uploads, configFile, ledgerFile, ledgerDamaged,
                   runs, prev, dispatched>>

\* send_email: server.login(smtp_username, smtp_password)
SmtpLogin(p) ==
    /\ sender[p].pc = "login"
    /\ \E ok \in BOOLEAN :
         LET s == Log(sender[p], "login")
         IN  sender' = [sender EXCEPT ![p] =
               IF ok THEN [s EXCEPT !.pc = "send_message"]
               ELSE RaiseInWith(s, "login", "SMTPAuthenticationError")]
    /\ UNCHANGED <<entry, eventVars, locatorVars, bucket, uploads, configFile, ledgerFile, ledgerDamaged,
                   runs, prev, dispatched>>

\* one more dispatch of the fingerprint fp
Dispatched(d, fp) == Put(d, fp, IF fp \in DOMAIN d THEN d[fp] + 1 ELSE 1)

\* send_email: server.send_message(msg)
SmtpSendMessage(p) ==
    /\ sender[p].pc = "send_message"
    /\ LET s == Log(sender[p], "send_message")
           fp == Fingerprint(s.latest_file.name, s.latest_file.time_created)
       IN  \/ /\ sender' = [sender EXCEPT ![p] =
                    [s EXCEPT !.sent = TRUE, !.pc = "smtp_exit"]]
              /\ dispatched' = Dispatched(dispatched, fp)
           \/ /\ sender' = [sender EXCEPT ![p] =
                    RaiseInWith(s, "send_message", "SMTPRecipientsRefused")]
              /\ UNCHANGED dispatched
    /\ UNCHANGED <<entry, eventVars, locatorVars, bucket, uploads, configFile, ledgerFile, ledgerDamaged,
                   runs, prev>>

\* send_email: the end of the with block, SMTP.__exit__: QUIT and close, also
\* when the block raised.  QUIT answered with a code other than 221 raises.
SmtpExit(p) ==
    /\ sender[p].pc = "smtp_exit"
    /\ \E quit_ok \in BOOLEAN :
         LET s == Log(sender[p], "quit")
         IN  sender' = [sender EXCEPT ![p] =
               IF s.pending # ""
               THEN RunExcept(s, s.failed_step,
                              IF quit_ok THEN s.pending ELSE "SMTPResponseException")
               ELSE IF quit_ok THEN [s EXCEPT !.pc = "mark_file_as_sent"]
               ELSE RunExcept(s, "quit", "SMTPResponseException")]
    /\ UNCHANGED <<entry, eventVars, locatorVars, bucket, uploads, configFile, ledgerFile, ledgerDamaged,
                   runs, prev, dispatched>>

\* the outcomes of save_sent_files: the file is rewritten; open() fails and
\* the file is as it was; the write fails after open() truncated the file
SaveOutcomes == {"saved", "open_failed", "write_failed"}

\* save_sent_files: the file after the call.  Every failure is logged and
\* swallowed.
SaveSentFiles(file, sent_files, outcome) ==
    CASE outcome = "saved" -> [kind |-> "valid", data |-> sent_files]
      [] outcome = "open_failed" -> file
      [] outcome = "write_failed" -> [kind |-> "corrupt", data |-> EmptyLedger]

\* run: self.mark_file_as_sent(latest_file.name, latest_file.time_created),
\* with its save_sent_files; then run and main return
MarkFileAsSent(p) ==
    /\ sender[p].pc = "mark_file_as_sent"
    /\ \E outcome \in SaveOutcomes :
         LET s == Log(sender[p], "write_ledger")
             sent_files == Marked(s.sent_files, s.latest_file.name,
                                  s.latest_file.time_created, runs)
         IN  /\ sender' = [sender EXCEPT ![p] =
                   RunReturns([s EXCEPT !.sent_files = sent_files])]
             /\ ledgerFile' = SaveSentFiles(ledgerFile, sent_files, outcome)
             /\ ledgerDamaged' = (ledgerDamaged \/ outcome = "write_failed")
    /\ UNCHANGED <<entry, eventVars, locatorVars, bucket, uploads, configFile, runs, prev, dispatched>>

(***************************************************************************)
(* The event handler: src/func.py                                          *)
(***************************************************************************)
\* a JSON member that is not there
Absent == "<absent>"

\* object names a payload may carry
PayloadNames == {"x.csv", "y.csv.gz"}

\* the value of the payload's "data" member: absent, a JSON object (v is its
\* "resourceName" member), null, or a JSON string (v is the string)
DataMembers ==
    {[t |-> "absent", v |-> Absent], [t |-> "null", v |-> Absent],
     [t |-> "string", v |-> "resourceName"], [t |-> "string", v |-> "x.csv"]}
        \cup {[t |-> "object", v |-> n] : n \in PayloadNames \cup {Absent}}

NoData == [t |-> "absent", v |-> Absent]

\* the payloads: data is None, bytes that are not JSON, JSON that is no
\* object (null, an array), or a JSON object with its two members
Payloads ==
    {[kind |-> k, dataMember |-> NoData, objectName |-> Absent] :
        k \in {"none", "not_json", "json_null", "json_array"}}
      \cup {[kind |-> "json_object", dataMember |-> d, objectName |-> o] :
              d \in DataMembers, o \in PayloadNames \cup {Absent}}

\* {}
EmptyBody == [dataMember |-> NoData, objectName |-> Absent]

\* handler: the parse of the input.  json.loads of bytes that are not JSON
\* raises JSONDecodeError, which is caught (body = {}); body.keys() on a parsed
\* value that is no dict raises AttributeError, which is not caught here.
ParseBody(d) ==
    CASE d.kind = "none" -> [raised |-> "", body |-> EmptyBody]
      [] d.kind = "not_json" -> [raised |-> "", body |-> EmptyBody]
      [] d.kind \in {"json_null", "json_array"} ->
           [raised |-> "AttributeError", body |-> EmptyBody]
      [] d.kind = "json_object" ->
           [raised |-> "",
            body |-> [dataMember |-> d.dataMember, objectName |-> d.objectName]]

\* Python: "resourceName" in s, for a str s
ContainsResourceName(str) == str \in {"resourceName"}

\* the fixed name of the test mode
Placeholder == "test-report.csv"

\* handler: the object name of the payload
\*   if "data" in body and "resourceName" in body["data"]: ...
\*   elif "objectName" in body: ...   else: "test-report.csv"
\* `in` on None raises TypeError; on a str it is the substring test, and
\* body["data"]["resourceName"] then raises TypeError.
ExtractObjectName(body) ==
    LET d == body.dataMember
        elseBranch ==
            IF body.objectName # Absent
            THEN [raised |-> "", object_name |-> body.objectName]
            ELSE [raised |-> "", object_name |-> Placeholder]
    IN  CASE d.t = "absent" -> elseBranch
          [] d.t = "null" -> [raised |-> "TypeError", object_name |-> Absent]
          [] d.t = "string" ->
               IF ContainsResourceName(d.v)
               THEN [raised |-> "TypeError", object_name |-> Absent]
               ELSE elseBranch
          [] d.t = "object" ->
               IF d.v # Absent THEN [raised |-> "", object_name |-> d.v]
               ELSE elseBranch

\* handler: the environment variables that must be set and non-empty
required_vars ==
    {"SMTP_USERNAME_SECRET_OCID", "SMTP_PASSWORD_SECRET_OCID",
     "EMAIL_FROM", "EMAIL_TO", "NAMESPACE", "BUCKET_NAME"}

\* the environments a behaviour may start with: which of the required
\* variables are unset or empty, and whether OCI_RESOURCE_PRINCIPAL_VERSION
\* is set
EnvGaps == {{}, {"EMAIL_TO"}, {"NAMESPACE", "BUCKET_NAME"}}
Environs ==
    {[resource_principal |-> rp, unset |-> g] : rp \in BOOLEAN, g \in EnvGaps}

NoResult ==
    [status |-> "", status_code |-> 0, error_type |-> "", object_name |-> Absent,
     missing_vars |-> {}]

HandlerStart ==
    [pc |-> "parse",
     object_name |-> Absent,
     io |-> <<>>,
     exc |-> "",
     origin |-> "",
     failed_step |-> "",
     missing_vars |-> {},
     result |-> NoResult]

HandlerOff == [HandlerStart EXCEPT !.pc = "off"]

HLog(h, ev) == [h EXCEPT !.io = Append(@, ev)]

\* a plausible bug: an inner except clause raises a new error of its own
ReraisedAsRuntimeError(kind) == "RuntimeError"

\* the inner except clauses (get_secret, the object fetch, the credentials,
\* the SMTP block, the local authentication): logger.error, then a bare raise
Reraised(kind) == kind

\* an exception leaves the step: the handler's except clause is next
Raise(h, step, kind) ==
    [h EXCEPT !.pc = "except", !.exc = kind, !.origin = kind, !.failed_step = step]

\* the same, through an inner except clause
RaiseThrough(h, step, kind) ==
    [h EXCEPT !.pc = "except", !.exc = Reraised(kind), !.origin = kind,
              !.failed_step = step]

\* handler: "Parse input data" and "Extract object name from event payload"
HandlerParse ==
    /\ handler.pc = "parse"
    /\ LET parsed == ParseBody(data)
           name == ExtractObjectName(parsed.body)
       IN  handler' =
             IF parsed.raised # "" THEN Raise(handler, "parse", parsed.raised)
             ELSE IF name.raised # "" THEN Raise(handler, "extract", name.raised)
             ELSE [handler EXCEPT !.object_name = name.object_name, !.pc = "auth"]
    /\ UNCHANGED <<entry, pollVars, locatorVars, ctx, data, environ>>

\* handler: "Initialize OCI authentication": the resource principal signer,
\* or oci.config.from_file and Signer inside a try that re-raises
HandlerAuth ==
    /\ handler.pc = "auth"
    /\ LET h == HLog(handler, "auth")
       IN  IF environ.resource_principal
           THEN \/ handler' = [h EXCEPT !.pc = "check_env"]
                \/ handler' = Raise(h, "auth", "OSError")
           ELSE \/ handler' = [h EXCEPT !.pc = "check_env"]
                \/ \E kind \in {"ConfigFileNotFound", "InvalidPrivateKey"} :
                     handler' = RaiseThrough(h, "auth", kind)
    /\ UNCHANGED <<entry, pollVars, locatorVars, ctx, data, environ>>

\* handler: "Check for required environment variables"
HandlerCheckEnv ==
    /\ handler.pc = "check_env"
    /\ LET missing_vars == required_vars \cap environ.unset
       IN  handler' =
             IF missing_vars # {}
             THEN Raise([handler EXCEPT !.missing_vars = missing_vars],
                        "check_env", "ValueError")
             ELSE [handler EXCEPT !.pc = "get_object"]
    /\ UNCHANGED <<entry, pollVars, locatorVars, ctx, data, environ>>

\* handler: oss_client.get_object(namespace, bucket_name, object_name)
HandlerGetObject ==
    /\ handler.pc = "get_object"
    /\ LET h == HLog(handler, "get_object")
       IN  \/ handler' = [h EXCEPT !.pc = "get_secret_username"]
           \/ handler' = RaiseThrough(h, "get_object", "ServiceError")
    /\ UNCHANGED <<entry, pollVars, locatorVars, ctx, data, environ>>

\* what get_secret may raise: the store rejects the call (ServiceError), the
\* content is not base64 (binascii.Error) or not UTF-8 (UnicodeDecodeError)
SecretFailures == {"ServiceError", "Error", "UnicodeDecodeError"}

\* handler: smtp_user = get_secret(...)
HandlerGetSecretUsername ==
    /\ handler.pc = "get_secret_username"
    /\ LET h == HLog(handler, "get_secret")
       IN  \/ handler' = [h EXCEPT !.pc = "get_secret_password"]
           \/ \E kind \in SecretFailures :
                handler' = RaiseThrough(h, "get_secret", kind)
    /\ UNCHANGED <<entry, pollVars, locatorVars, ctx, data, environ>>

\* handler: smtp_pass = get_secret(...), then the message is built
HandlerGetSecretPassword ==
    /\ handler.pc = "get_secret_password"
    /\ LET h == HLog(handler, "get_secret")
       IN  \/ handler' = [h EXCEPT !.pc = "smtp_connect"]
           \/ \E kind \in SecretFailures :
                handler' = RaiseThrough(h, "get_secret", kind)
    /\ UNCHANGED <<entry, pollVars, locatorVars, ctx, data, environ>>

\* handler: server = smtplib.SMTP(server, int(port))
HandlerSmtpConnect ==
    /\ handler.pc = "smtp_connect"
    /\ LET h == HLog(handler, "smtp_connect")
       IN  \/ handler' = [h EXCEPT !.pc = "starttls"]
           \/ handler' = RaiseThrough(h, "smtp_connect", "SMTPConnectError")
    /\ UNCHANGED <<entry, pollVars, locatorVars, ctx, data, environ>>

\* handler: server.starttls()
HandlerStarttls ==
    /\ handler.pc = "starttls"
    /\ LET h == HLog(handler, "starttls")
       IN  \/ handler' = [h EXCEPT !.pc = "login"]
           \/ handler' = RaiseThrough(h, "starttls", "SMTPNotSupportedError")
    /\ UNCHANGED <<entry, pollVars, locatorVars, ctx, data, environ>>

\* handler: server.login(smtp_user, smtp_pass)
HandlerLogin ==
    /\ handler.pc = "login"
    /\ LET h == HLog(handler, "login")
       IN  \/ handler' = [h EXCEPT !.pc = "send_message"]
           \/ handler' = RaiseThrough(h, "login", "SMTPAuthenticationError")
    /\ UNCHANGED <<entry, pollVars, locatorVars, ctx, data, environ>>

\* handler: server.send_message(msg)
HandlerSendMessage ==
    /\ handler.pc = "send_message"
    /\ LET h == HLog(handler, "send_message")
       IN  \/ handler' = [h EXCEPT !.pc = "quit"]
           \/ handler' = RaiseThrough(h, "send_message", "SMTPRecipientsRefused")
    /\ UNCHANGED <<entry, pollVars, locatorVars, ctx, data, environ>>

\* handler: server.quit()
HandlerQuit ==
    /\ handler.pc = "quit"
    /\ LET h == HLog(handler, "quit")
       IN  \/ handler' = [h EXCEPT !.pc = "respond"]
           \/ handler' = RaiseThrough(h, "quit", "SMTPServerDisconnected")
    /\ UNCHANGED <<entry, pollVars, locatorVars, ctx, data, environ>>

\* handler: "Return success response": a Response with status 200 when there
\* is a ctx, the bare result otherwise
SuccessResponse(c, h) ==
    [h EXCEPT !.pc = "returned",
              !.result = [status |-> "success",
                          status_code |-> IF c THEN 200 ELSE 0,
                          error_type |-> "",
                          object_name |-> h.object_name,
                          missing_vars |-> {}]]

\* a plausible bug: the except clause re-raises whatever ctx is
ErrorResponseRaises(c, h) == [h EXCEPT !.pc = "raised"]

\* handler: except Exception as e: the error result, error_type being
\* type(e).__name__; a Response with status 500 when there is a ctx, the
\* result printed and the exception re-raised otherwise
ErrorResponse(c, h) ==
    IF c
    THEN [h EXCEPT !.pc = "returned",
                   !.result = [status |-> "error",
                               status_code |-> 500,
                               error_type |-> h.exc,
                               object_name |-> Absent,
                               missing_vars |-> h.missing_vars]]
    ELSE [h EXCEPT !.pc = "raised"]

HandlerReturn ==
    /\ handler.pc = "respond"
    /\ handler' = SuccessResponse(ctx, handler)
    /\ UNCHANGED <<entry, pollVars, locatorVars, ctx, data, environ>>

HandlerExcept ==
    /\ handler.pc = "except"
    /\ handler' = ErrorResponse(ctx, handler)
    /\ UNCHANGED <<entry, pollVars, locatorVars, ctx, data, environ>>

(***************************************************************************)
(* The two locators applied to one listing.                                *)
(***************************************************************************)
\* the buckets a listing may come from, and the listings, in every order
Buckets == UNION {[D -> Times] : D \in SUBSET Names}
ListingInputs == UNION {Listings(b) : b \in Buckets}

NotCalled == [state |-> "not_called", list_ok |-> FALSE, object |-> NoObj]

\* get_latest_report_file: list_objects raises (logged, re-raised), or the
\* latest report file of the listing is returned (None when there is none)
GetLatestReportFileResult(list_ok, objects) ==
    IF list_ok
    THEN [state |-> "returned", list_ok |-> TRUE, object |-> LatestReportFile(objects)]
    ELSE [state |-> "raised", list_ok |-> FALSE, object |-> NoObj]

\* get_latest_report_filename: the same, the result being the name
GetLatestReportFilenameResult(list_ok, objects) ==
    IF list_ok
    THEN [state |-> "returned", list_ok |-> TRUE,
          object |-> [name |-> LatestReportFilename(objects), time_created |-> 0]]
    ELSE [state |-> "raised", list_ok |-> FALSE, object |-> NoObj]

\* sender.get_latest_report_file() on the listing
CallGetLatestReportFile ==
    /\ entry = "locator"
    /\ locator.script.state = "not_called"
    /\ \E list_ok \in BOOLEAN :
         locator' = [locator EXCEPT
                       !.script = GetLatestReportFileResult(list_ok, locator.objects)]
    /\ UNCHANGED <<entry, pollVars, eventVars>>

\* get_latest_report_filename(oss_client, namespace, bucket_name) on the listing
CallGetLatestReportFilename ==
    /\ entry = "locator"
    /\ locator.func.state = "not_called"
    /\ \E list_ok \in BOOLEAN :
         locator' = [locator EXCEPT
                       !.func = GetLatestReportFilenameResult(list_ok, locator.objects)]
    /\ UNCHANGED <<entry, pollVars, eventVars>>

(***************************************************************************)
(* The specification.                                                      *)
(***************************************************************************)
PollingIdle ==
    /\ bucket = EmptyLedger
    /\ uploads = 0
    /\ configFile = [exists |-> FALSE, keys |-> {}]
    /\ ledgerFile = [kind |-> "missing", data |-> EmptyLedger]
    /\ ledgerDamaged = FALSE
    /\ sender = [p \in Procs |-> Fresh]
    /\ runs = 0
    /\ prev = NoRun
    /\ dispatched = EmptyLedger

EventIdle ==
    /\ ctx = FALSE
    /\ data = [kind |-> "none", dataMember |-> NoData, objectName |-> Absent]
    /\ environ = [resource_principal |-> FALSE, unset |-> {}]
    /\ handler = HandlerOff

LocatorIdle ==
    locator = [objects |-> <<>>, script |-> NotCalled, func |-> NotCalled]

\* the polling script is about to be invoked for the first time
InitPolling ==
    /\ entry = "polling"
    /\ bucket = EmptyLedger
    /\ uploads = 0
    /\ configFile \in ConfigFiles
    /\ ledgerFile = [kind |-> "missing", data |-> EmptyLedger]
    /\ ledgerDamaged = FALSE
    /\ sender = [p \in Procs |-> Fresh]
    /\ runs = 0
    /\ prev = NoRun
    /\ dispatched = EmptyLedger
    /\ EventIdle
    /\ LocatorIdle

\* handler(ctx, data) has been called
InitEvent ==
    /\ entry = "event"
    /\ ctx \in BOOLEAN
    /\ data \in Payloads
    /\ environ \in Environs
    /\ handler = HandlerStart
    /\ PollingIdle
    /\ LocatorIdle

\* a listing is at hand for the locators
InitLocator ==
    /\ entry = "locator"
    /\ locator \in [objects : ListingInputs, script : {NotCalled}, func : {NotCalled}]
    /\ PollingIdle
    /\ EventIdle

Init == InitPolling \/ InitEvent \/ InitLocator

Invocation(p) ==
    \/ StartInvocation(p)
    \/ LoadConfig(p)
    \/ LoadSentFiles(p)
    \/ SetupOciConfig(p)
    \/ SetupSigner(p)
    \/ GetLatestReportFile(p)
    \/ CheckAlreadySent(p)
    \/ DownloadFile(p)
    \/ GetSecretUsername(p)
    \/ GetSecretPassword(p)
    \/ SmtpConnect(p)
    \/ SmtpStarttls(p)
    \/ SmtpLogin(p)
    \/ SmtpSendMessage(p)
    \/ SmtpExit(p)
    \/ MarkFileAsSent(p)

NextPolling ==
    \/ \E n \in Names, t \in Times : UploadObject(n, t)
    \/ \E p \in Serial : Invocation(p)

NextEvent ==
    \/ HandlerParse
    \/ HandlerAuth
    \/ HandlerCheckEnv
    \/ HandlerGetObject
    \/ HandlerGetSecretUsername
    \/ HandlerGetSecretPassword
    \/ HandlerSmtpConnect
    \/ HandlerStarttls
    \/ HandlerLogin
    \/ HandlerSendMessage
    \/ HandlerQuit
    \/ HandlerReturn
    \/ HandlerExcept

NextLocator ==
    \/ CallGetLatestReportFile
    \/ CallGetLatestReportFilename

Next == NextPolling \/ NextEvent \/ NextLocator

Spec == Init /\ [][Next]_vars

\* The polling script started by callers that do not serialize it: the
\* invocations of the processes overlap, step by step, over the same bucket
\* and the same sent_files.json.
NextConcurrent ==
    \/ \E n \in Names, t \in Times : UploadObject(n, t)
    \/ \E p \in Procs : Invocation(p)

SpecConcurrent == InitPolling /\ [][NextConcurrent]_vars

(***************************************************************************)
(* Properties.                                                             *)
(***************************************************************************)
IsPrefix(a, b) == Len(a) <= Len(b) /\ a = SubSeq(b, 1, Len(a))

\* the events of a log that are in S, in their order
Only(io, S) == SelectSeq(io, LAMBDA e : e \in S)

\* what a polling run does for a report it sends
SendWork ==
    {"get_object", "get_secret", "smtp_connect", "starttls", "login",
     "send_message", "quit", "write_ledger"}

FingerprintOf(obj) == Fingerprint(obj.name, obj.time_created)

\* C1: as long as the ledger file stays intact, the polling entry point
\* dispatches no fingerprint by SMTP more than once, whatever the outcome of
\* the steps of each run (a failed, logged save of the ledger included).
C1_NoFingerprintDispatchedTwice ==
    ~ledgerDamaged => \A fp \in DOMAIN dispatched : dispatched[fp] <= 1

\* C2: when a polling run has finished after it dispatched the object with
\* fingerprint F, the persisted ledger has a record keyed by F.
C2_RecordPersistedAfterDispatch ==
    \A p \in Procs :
        (sender[p].pc = "exited" /\ sender[p].exit_code = 0 /\ sender[p].sent)
            => /\ ledgerFile.kind = "valid"
               /\ FingerprintOf(sender[p].latest_file) \in DOMAIN ledgerFile.data

\* C3: of two successive polling runs over an unchanged bucket, the first of
\* which dispatched the latest report, the second is a no-op: no download, no
\* secret fetch, no SMTP step, no ledger write, whatever the bucket holds and
\* in whatever order it is listed.  (Stated for a second run that loaded the
\* record of the first from the ledger file.)
C3_SecondRunIsNoOp ==
    \A p \in Serial :
        (/\ prev.ran /\ prev.sent /\ prev.exit_code = 0
         /\ FingerprintOf(prev.latest_file) \in DOMAIN sender[p].sent_files
         /\ sender[p].latest_file # NoObj
         /\ sender[p].seen = prev.seen)
            => /\ Only(sender[p].io, SendWork) = <<>>
               /\ sender[p].pc \notin {"download_file"}

\* the listed objects whose name ends with ".csv.gz"
Matching(objects) ==
    {o \in {objects[i] : i \in DOMAIN objects} : EndsWith(o.name, CsvGz)}

\* C4: on a successful listing both locators return, without raising, an
\* object of the ".csv.gz" objects listed whose creation timestamp is at
\* least that of every other one, and None when there is none; an object not
\* ending in ".csv.gz" is never returned.
C4_LocatorReturnsLatestReport ==
    LET M == Matching(locator.objects)
        script == locator.script
        func == locator.func
    IN  /\ script.list_ok =>
              /\ script.state = "returned"
              /\ IF M = {} THEN script.object = NoObj
                 ELSE /\ script.object \in M
                      /\ \A m \in M : m.time_created <= script.object.time_created
        /\ func.list_ok =>
              /\ func.state = "returned"
              /\ IF M = {} THEN func.object.name = NoName
                 ELSE \E o \in M :
                        /\ o.name = func.object.name
                        /\ \A m \in M : m.time_created <= o.time_created

\* C4, witness: both locators returned a report although a plain ".csv"
\* object listed before it is newer.
C4_Witness ==
    /\ locator.script.state = "returned"
    /\ locator.func.state = "returned"
    /\ locator.script.object # NoObj
    /\ locator.func.object.name = locator.script.object.name
    /\ Len(locator.objects) >= 2
    /\ locator.objects[1].name = PlainCsv
    /\ locator.objects[1].time_created > locator.script.object.time_created

\* a result the platform gets: success with 200, or error with 500 and an
\* error classification
Structured(r) ==
    \/ r.status = "success" /\ r.status_code = 200
    \/ r.status = "error" /\ r.status_code = 500 /\ r.error_type # ""

HandlerEnded == handler.pc \in {"returned", "raised"}

\* C5 as claimed: whatever ctx is, no exception escapes the handler and what it
\* returns is success/200 or error/500 with an error_type.
C5_AlwaysStructuredResult ==
    entry = "event" =>
        /\ handler.pc # "raised"
        /\ handler.pc = "returned" => Structured(handler.result)

\* C5 as amended: with a ctx the handler returns success/200 or error/500 with
\* an error_type for every payload and every failure, and no exception
\* escapes; with ctx = None a run without failure returns the bare result (no
\* status code) and a failing run re-raises the exception.  Until it has ended
\* the handler has a step to take.
C5_StructuredResultWithCtx ==
    entry = "event" =>
        /\ ctx => /\ handler.pc # "raised"
                  /\ handler.pc = "returned" =>
                        /\ Structured(handler.result)
                        /\ handler.result.status = "error" <=> handler.exc # ""
        /\ ~ctx => /\ handler.pc = "returned" =>
                         /\ handler.result.status = "success"
                         /\ handler.result.status_code = 0
                         /\ handler.exc = ""
                   /\ handler.pc = "raised" => handler.exc # ""
        /\ ~HandlerEnded => ENABLED NextEvent

\* C5, witness: with a ctx, the object fetch failed and the handler returned
\* the error result with status 500.
C5_Witness ==
    /\ entry = "event" /\ ctx
    /\ handler.pc = "returned"
    /\ handler.failed_step = "get_object"
    /\ handler.result.status = "error"
    /\ handler.result.status_code = 500

\* the object name the claim gives a payload
ClaimedObjectName(d) ==
    IF d.kind = "json_object" /\ d.dataMember.t = "object" /\ d.dataMember.v # Absent
    THEN d.dataMember.v
    ELSE IF d.kind = "json_object" /\ d.objectName # Absent
    THEN d.objectName
    ELSE Placeholder

\* C6: the object name is data.resourceName when the payload has it, else the
\* top-level objectName when it has that, else the placeholder
\* "test-report.csv", and the handler goes on to the fetch without an error
\* of the extraction.  (Stated for a payload that is absent, not JSON, or a
\* JSON object.)
C6_ObjectNameExtraction ==
    (/\ entry = "event"
     /\ handler.pc # "parse"
     /\ data.kind \in {"none", "not_json", "json_object"})
        => /\ handler.failed_step \notin {"parse", "extract"}
           /\ handler.object_name = ClaimedObjectName(data)

\* the I/O a run may do after its configuration is known
IoAfterConfig ==
    {"read_ledger", "oci_config", "signer", "auth", "list_objects", "get_object",
     "get_secret", "smtp_connect", "starttls", "login", "send_message", "quit",
     "write_ledger"}

\* C7: in both entry points a missing or empty required setting makes the run
\* fail with a configuration error that lists every missing key, before any
\* I/O: no authentication setup, ledger read, listing, download, secret fetch
\* or SMTP connection.  (Stated for handler runs whose payload parsed.)
C7_FailFastBeforeAnyIo ==
    /\ \A p \in Procs :
         (/\ configFile.exists
          /\ required_keys \ configFile.keys # {}
          /\ sender[p].pc \notin {"idle", "load_config"})
            => /\ sender[p].pc = "exited"
               /\ sender[p].exit_code = 1
               /\ sender[p].error = "ValueError"
               /\ sender[p].missing_keys = required_keys \ configFile.keys
               /\ Only(sender[p].io, IoAfterConfig) = <<>>
    /\ (/\ entry = "event"
        /\ required_vars \cap environ.unset # {}
        /\ handler.failed_step \notin {"parse", "extract"})
            => /\ Only(handler.io, IoAfterConfig) = <<>>
               /\ HandlerEnded =>
                     /\ handler.exc = "ValueError"
                     /\ handler.missing_vars = required_vars \cap environ.unset

\* the steps of one send, in the order of the Mail Dispatcher
SmtpSteps == <<"smtp_connect", "starttls", "login", "send_message", "quit">>
SmtpSet == {SmtpSteps[i] : i \in DOMAIN SmtpSteps}
\* the steps before the close
SmtpCore == SubSeq(SmtpSteps, 1, 4)
SmtpCoreSet == SmtpSet \ {"quit"}

Last(seq) == seq[Len(seq)]

\* the failure of a polling run has reached the caller
SurfacedByScript(s) == s.pc = "exited" => s.exit_code = 1

\* the failure of a handler run is on its way to, or has reached, the caller
SurfacedByHandler ==
    \/ handler.pc = "except"
    \/ handler.pc = "raised"
    \/ handler.pc = "returned" /\ handler.result.status = "error"

\* C8 as claimed: in both dispatchers the steps of a send are a prefix of
\* open, starttls, login, transmit, close; after a step that failed none of
\* the later steps is executed; the failure is surfaced.
C8_NoStepAfterFailedStep ==
    /\ \A p \in Procs :
         LET L == Only(sender[p].io, SmtpSet)
         IN  /\ IsPrefix(L, SmtpSteps)
             /\ sender[p].failed_step \in SmtpSet =>
                   /\ Last(L) = sender[p].failed_step
                   /\ SurfacedByScript(sender[p])
    /\ LET L == Only(handler.io, SmtpSet)
       IN  /\ IsPrefix(L, SmtpSteps)
           /\ handler.failed_step \in SmtpSet =>
                 /\ Last(L) = handler.failed_step
                 /\ SurfacedByHandler

\* C8 as amended: in both dispatchers open, starttls, login, transmit happen in
\* that order, the message is transmitted only after starttls and login
\* succeeded, a failed step is followed by none of starttls, login, transmit,
\* and the failure is surfaced.  The close differs: the handler closes only
\* after the transmit succeeded, so a failed step is its last step; the
\* polling script's with block closes the connection once it is open, also
\* after starttls, login or transmit failed (not after the open failed).
C8_StepOrderOfTheDispatchers ==
    /\ \A p \in Procs :
         LET s == sender[p]
             L == Only(s.io, SmtpSet)
             core == Only(s.io, SmtpCoreSet)
         IN  /\ IsPrefix(core, SmtpCore)
             /\ \A i \in DOMAIN L : L[i] = "quit" => i = Len(L) /\ i > 1
             /\ s.failed_step \in SmtpCoreSet => Last(core) = s.failed_step
             /\ s.failed_step \in SmtpSet => SurfacedByScript(s)
             /\ s.failed_step = "smtp_connect" => L = <<"smtp_connect">>
             /\ (/\ s.pc \in {"mark_file_as_sent", "exited"}
                 /\ L # <<>>
                 /\ s.failed_step # "smtp_connect") => Last(L) = "quit"
    /\ LET L == Only(handler.io, SmtpSet)
       IN  /\ IsPrefix(L, SmtpSteps)
           /\ handler.failed_step \in SmtpSet =>
                 /\ Last(L) = handler.failed_step
                 /\ SurfacedByHandler

\* C8, witness: in the polling script the login failed, the connection was
\* closed all the same, and the process ended with status 1.
C8_Witness ==
    \E p \in Procs :
        /\ sender[p].pc = "exited"
        /\ sender[p].failed_step = "login"
        /\ Only(sender[p].io, SmtpSet) = <<"smtp_connect", "starttls", "login", "quit">>
        /\ sender[p].exit_code = 1

\* the external calls of the handler, in the order of the pipeline
HandlerSteps ==
    <<"auth", "get_object", "get_secret", "get_secret", "smtp_connect",
      "starttls", "login", "send_message", "quit">>
ExternalCalls == {HandlerSteps[i] : i \in 2..Len(HandlerSteps)}

\* the error_type the claim gives a failure
ClaimedErrorType(step, kind) ==
    IF step = "get_secret" /\ kind = "ServiceError" THEN "SecretUnavailable" ELSE kind

C10_ExitStatus ==
    \A p \in Procs :
        LET s == sender[p]
            notFound == s.error = "" /\ s.latest_file = NoObj
            alreadySent ==
                /\ s.error = "" /\ s.latest_file # NoObj
                /\ Last(s.io) = "list_objects"
        IN  s.pc = "exited" =>
              /\ s.exit_code \in {0, 1}
              /\ s.exit_code = 1 <=> s.error # ""
              /\ s.error # "" <=>
                    \/ s.failed_step \in {"load_config", "setup_oci_config", "setup_signer"}
                    \/ s.failed_step \in {"get_latest_report_file", "download_file",
                                          "get_secret"}
                    \/ s.failed_step \in SmtpSet
              /\ s.error = "" =>
                    \/ notFound /\ Last(s.io) = "list_objects"
                    \/ alreadySent /\ FingerprintOf(s.latest_file) \in DOMAIN s.sent_files
                    \/ Last(s.io) = "write_ledger" /\ s.sent
              /\ (notFound \/ alreadySent) =>
                    /\ s.exit_code = 0
                    /\ Only(s.io, SendWork) = <<>>

\* C10, witness: after a run that had sent the latest report, a run found it
\* in the ledger and ended with status 0 without sending.
C10_Witness ==
    \E p \in Procs :
        /\ sender[p].pc = "exited"
        /\ sender[p].exit_code = 0
        /\ sender[p].latest_file # NoObj
        /\ ~sender[p].sent
        /\ prev.ran /\ prev.sent /\ prev.exit_code = 0

\* the fingerprints recorded in the persisted ledger file
Recorded(f) == IF f.kind = "valid" THEN DOMAIN f.data ELSE {}

\* C11: the persisted ledger is append-only: a fingerprint recorded in the
\* ledger file is recorded in it after every later step of every polling
\* invocation, also of one that found the file unreadable at its start and
\* rewrites it as a whole.  (Stated for the steps that leave a readable file.)
C11_LedgerFileAppendOnly ==
    [][ledgerFile'.kind = "valid"
          => \A fp \in Recorded(ledgerFile) : fp \in Recorded(ledgerFile')]_vars

\* two overlapping invocations both passed the already-sent check for the
\* same object and both transmitted it: neither had a ledger file to read,
\* and neither has written one yet
OverlappingDoubleDispatch ==
    \E p, q \in Procs :
        /\ p # q
        /\ sender[p].pc = "mark_file_as_sent" /\ sender[q].pc = "mark_file_as_sent"
        /\ sender[p].ledger_read = "missing" /\ sender[q].ledger_read = "missing"
        /\ sender[p].latest_file = sender[q].latest_file
        /\ dispatched[FingerprintOf(sender[p].latest_file)] = 2

\* a step in which an invocation that had read the ledger file without a
\* failure rewrites it, successfully, without a record that was in it
LostRecordStep ==
    \E p \in Procs :
        /\ sender[p].pc = "mark_file_as_sent"
        /\ sender[p].ledger_read \in {"missing", "loaded"}
        /\ ledgerFile.kind = "valid" /\ ledgerFile'.kind = "valid"
        /\ \E fp \in Recorded(ledgerFile) : fp \notin Recorded(ledgerFile')

\* overlapping invocations can both pass the check and dispatch twice
NoOverlappingDoubleDispatch == ~OverlappingDoubleDispatch

\* the rewrite of one overlapping invocation can drop the other's record
NoLostRecordStep == [][~LostRecordStep]_vars

\* C12, for invocations serialized by the caller: no fingerprint is
\* dispatched twice, and no rewrite of the ledger file drops a record that
\* an earlier invocation wrote.
C12_SerializedInvocationsAreSafe ==
    [][(\A q \in Procs \ Serial : sender[q].pc = "idle")
          => /\ \A fp \in DOMAIN dispatched' : dispatched'[fp] <= 1
             /\ ledgerFile'.kind = "valid"
                   => \A fp \in Recorded(ledgerFile) : fp \in Recorded(ledgerFile')]_vars

\* the positions of a ReportSender inside run(), the record step last
RunSteps ==
    {"get_latest_report_file", "is_file_already_sent", "download_file",
     "get_secret_username", "get_secret_password", "smtp_connect", "starttls",
     "login", "send_message", "smtp_exit", "mark_file_as_sent"}

\* the ledger d with exactly one more entry, for the fingerprint fp
OneMoreEntry(d, e, fp) ==
    /\ fp \notin DOMAIN d
    /\ DOMAIN e = DOMAIN d \cup {fp}
    /\ \A k \in DOMAIN d : e[k] = d[k]

\* the ledger a file holds
FileLedger(f) == IF f.kind = "valid" THEN f.data ELSE EmptyLedger

\* a step of run() other than the record step changes neither the ledger in
\* memory nor the ledger file
LedgerFrameStep ==
    /\ \A p \in Procs :
          (sender[p].pc \in RunSteps \ {"mark_file_as_sent"})
              => sender'[p].sent_files = sender[p].sent_files
    /\ (\A p \in Procs : sender[p].pc # "mark_file_as_sent")
          => ledgerFile' = ledgerFile

\* the record step follows a successful dispatch and adds to the ledger in
\* memory exactly the entry of the dispatched object
RecordStepInMemory ==
    \A p \in Procs :
        (sender[p].pc = "mark_file_as_sent" /\ sender'[p].pc = "exited")
            => /\ sender[p].sent
               /\ Last(Only(sender[p].io, SmtpCoreSet)) = "send_message"
               /\ OneMoreEntry(sender[p].sent_files, sender'[p].sent_files,
                               FingerprintOf(sender[p].latest_file))

\* the record step adds to the ledger on disk exactly that entry
RecordStepOnDisk ==
    \A p \in Procs :
        (sender[p].pc = "mark_file_as_sent" /\ sender'[p].pc = "exited")
            => OneMoreEntry(FileLedger(ledgerFile), FileLedger(ledgerFile'),
                            FingerprintOf(sender[p].latest_file))

\* every fingerprint in the ledger file is one of a dispatched object
LedgerFileSound ==
    \A fp \in Recorded(ledgerFile) : fp \in DOMAIN dispatched /\ dispatched[fp] >= 1

\* C13: the ledger, in memory and on disk, is modified only by the record
\* step that follows a successful SMTP dispatch, and that step adds exactly
\* the entry of the dispatched object's fingerprint; a run that ends without
\* a dispatch leaves the ledger as it was; every fingerprint in the ledger
\* file is one of a dispatched object.
C13_LedgerSoundnessAndFrame ==
    [][/\ LedgerFrameStep
       /\ RecordStepInMemory
       /\ RecordStepOnDisk
       /\ LedgerFileSound /\ LedgerFileSound']_vars

\* what the code keeps of it: all but the effect of the record step on disk
LedgerFrameAndSoundnessInMemory ==
    [][/\ LedgerFrameStep
       /\ RecordStepInMemory
       /\ LedgerFileSound /\ LedgerFileSound']_vars

====
